---- MODULE Spec2Model ----
(***************************************************************************)
(* Output sections of the wasm linker (src/wasm/OutputSections.h).         *)
(*                                                                         *)
(* A link holds an ordered list of output sections.  The layout driver     *)
(* constructs them, streams content into the synthetic ones, finalizes     *)
(* them, assigns file offsets and writes them into one output buffer.      *)
(* Every public operation of the classes is one action; the driver may     *)
(* call them in any order, which is what the assertions guard against.     *)
(* The model is of a build with assertions enabled: a failed assert        *)
(* aborts the program (pc = "aborted") before the statement after it.      *)
(***************************************************************************)
EXTENDS Integers, Sequences, FiniteSets, TLC

VARIABLES
    sections,   \* the link's output sections, in file order (program state)
    Buf,        \* the output buffer, up to the last position written
    ret,        \* what the last call returned, or the call whose assert failed
    pc,         \* "running", or "aborted" after a failed assert
    todo,       \* per section: chunks the driver has yet to stream into it
    hist        \* per section: history of the calls made on it

vars == <<sections, Buf, ret, pc, todo, hist>>

----------------------------------------------------------------------------
(* Bounds of the model.                                                    *)

\* finalizeContents() is called at most this many times on one section
MaxFinalize == 2
\* the first section is placed after a file header of this many bytes
FileHeaderSize == 8

(* Section type tags of llvm::wasm.                                        *)
WASM_SEC_CUSTOM == 0
WASM_SEC_CODE == 10
WASM_SEC_DATA == 11

----------------------------------------------------------------------------
(* Byte strings and the writer utilities.                                  *)

Fill(n, b) == [k \in 1..n |-> b]

\* unsigned LEB128: 7 bits per byte, low group first, high bit = "more"
RECURSIVE EncodeULEB128(_)
EncodeULEB128(n) ==
    IF n < 128 THEN <<n>>
    ELSE <<(n % 128) + 128>> \o EncodeULEB128(n \div 128)

\* writeStr: the length as ULEB128, then the bytes
WriteStr(s) == EncodeULEB128(Len(s)) \o s

\* the bytes createHeader() produces: the type tag, then the body size
HeaderBytes(Type, BodySize) == <<Type % 256>> \o EncodeULEB128(BodySize)

\* one relocation record on the wire
EncodeReloc(r) ==
    EncodeULEB128(r.Type) \o EncodeULEB128(r.Offset) \o EncodeULEB128(r.Index)

RECURSIVE EncodeRelocs(_)
EncodeRelocs(rs) ==
    IF rs = <<>> THEN <<>> ELSE EncodeReloc(Head(rs)) \o EncodeRelocs(Tail(rs))

----------------------------------------------------------------------------
(* Input chunks (functions, segments, input sections): externally owned.   *)
(* A chunk has a size, its bytes (size copies of fill), relocation records *)
(* with chunk-local offsets, and the OutputOffset the section assigns.     *)

Chunk(size, fill, relocs) ==
    [size |-> size, fill |-> fill, relocs |-> relocs, OutputOffset |-> 0]

ChunkBytes(c) == Fill(c.size, c.fill)

\* InputChunk::writeRelocations: the chunk's records, offsets translated by
\* the chunk's OutputOffset
ChunkRelocs(c) ==
    [k \in 1..Len(c.relocs) |->
        [c.relocs[k] EXCEPT !.Offset = c.relocs[k].Offset + c.OutputOffset]]

----------------------------------------------------------------------------
(* Constructors.                                                           *)

\* OutputSection(Type, Name): Header empty, Offset = 0.  Unflushed is what
\* BodyOutputStream holds in its buffer and has not yet put into Body.
OutputSection(kind, Type, Name) ==
    [kind |-> kind, Type |-> Type, Name |-> Name, Header |-> <<>>,
     Offset |-> 0, Body |-> <<>>, Unflushed |-> <<>>, BodySize |-> 0,
     PayloadSize |-> 0, NameData |-> <<>>, Chunks |-> <<>>, Sec |-> 0,
     SectionIndex |-> 0]

StreamPrepend(str, bytes) == bytes \o str

StreamOverwrite(str, bytes) == bytes

\* the body stream is append-only: it adds bytes at the end
StreamAppend(str, bytes) == str \o bytes

\* BodyOutputStream << bytes: the bytes go to the stream's buffer
StreamPut(s, bytes) == [s EXCEPT !.Unflushed = StreamAppend(@, bytes)]

\* BodyOutputStream.flush(): the buffer goes to Body
Flush(s) ==
    [s EXCEPT !.Body = StreamAppend(@, s.Unflushed), !.Unflushed = <<>>]

\* a write may leave the bytes in the buffer or, the buffer being full or
\* the stream unbuffered, put everything into Body: both can happen
AfterWrite(s) == {s, Flush(s)}

\* what the stream has been given so far
Content(s) == s.Body \o s.Unflushed

SyntheticBodyEmpty(Name) == <<>>

\* what the SyntheticSection constructor writes to the body stream
SyntheticBody(Name) == IF Name # <<>> THEN WriteStr(Name) ELSE <<>>

SyntheticSection(Type, Name) ==
    StreamPut(OutputSection("Synthetic", Type, Name), SyntheticBody(Name))

CodeSection(Functions) ==
    [OutputSection("Code", WASM_SEC_CODE, <<>>) EXCEPT !.Chunks = Functions]

DataSection(Segments) ==
    [OutputSection("Data", WASM_SEC_DATA, <<>>) EXCEPT !.Chunks = Segments]

CustomSection(Name, InputSections) ==
    [OutputSection("Custom", WASM_SEC_CUSTOM, Name) EXCEPT
        !.Chunks = InputSections]

RelocSection(Name, Sec, SectionIndex) ==
    [SyntheticSection(WASM_SEC_CUSTOM, Name) EXCEPT
        !.kind = "Reloc", !.Sec = Sec, !.SectionIndex = SectionIndex]

IsSynthetic(s) == s.kind \in {"Synthetic", "Reloc"}

----------------------------------------------------------------------------
(* Operations of the section classes, as functions of the section record.  *)

\* OutputSection::setOffset
SetOffsetOf(s, NewOffset) == [s EXCEPT !.Offset = NewOffset]

\* OutputSection::createHeader: stores the header for BodySize
CreateHeader(s, BodySize) ==
    [s EXCEPT !.Header = HeaderBytes(s.Type, BodySize)]

RECURSIVE CountRelocs(_)
CountRelocs(cs) ==
    IF cs = <<>> THEN 0 ELSE Len(Head(cs).relocs) + CountRelocs(Tail(cs))

\* numRelocations(): 0 unless overridden (Code, Data, Custom)
NumRelocations(s) ==
    IF IsSynthetic(s) THEN 0 ELSE CountRelocs(s.Chunks)

RECURSIVE ChunksRelocs(_)
ChunksRelocs(cs) ==
    IF cs = <<>> THEN <<>> ELSE ChunkRelocs(Head(cs)) \o ChunksRelocs(Tail(cs))

\* writeRelocations(OS): the records put on OS, in order; none unless
\* overridden (Code, Data, Custom forward each chunk's records)
WriteRelocations(s) ==
    IF IsSynthetic(s) THEN <<>> ELSE ChunksRelocs(s.Chunks)

\* RelocSection::writeBody: what it puts on the body stream
RelocWriteBody(s, secs) ==
    EncodeULEB128(s.SectionIndex)
        \o EncodeULEB128(NumRelocations(secs[s.Sec]))
        \o EncodeRelocs(WriteRelocations(secs[s.Sec]))

\* the virtual writeBody(): a no-op unless overridden (RelocSection)
WriteBody(s, secs) ==
    IF s.kind = "Reloc" THEN RelocWriteBody(s, secs) ELSE <<>>

SyntheticFinalizeNoFlush(s, secs) ==
    LET w == StreamPut(s, WriteBody(s, secs))
    IN  CreateHeader(w, Len(w.Body))

\* SyntheticSection::finalizeContents
SyntheticFinalize(s, secs) ==
    LET f == Flush(StreamPut(s, WriteBody(s, secs)))
    IN  CreateHeader(f, Len(f.Body))

\* the loop of the content sections' finalizeContents: chunk k is placed at
\* the running size, which then grows by the chunk's size
RECURSIVE LayoutChunks(_, _, _)
LayoutChunks(cs, k, at) ==
    IF k > Len(cs) THEN [chunks |-> cs, end |-> at]
    ELSE LayoutChunks([cs EXCEPT ![k].OutputOffset = at], k + 1,
                      at + cs[k].size)

CodeFinalizeCounted(s) ==
    LET l == LayoutChunks(s.Chunks, 1, Len(EncodeULEB128(Len(s.Chunks))))
    IN  CreateHeader([s EXCEPT !.Chunks = l.chunks, !.BodySize = l.end], l.end)

\* CodeSection::finalizeContents
CodeFinalize(s) ==
    LET l == LayoutChunks(s.Chunks, 1, 0)
    IN  CreateHeader([s EXCEPT !.Chunks = l.chunks, !.BodySize = l.end], l.end)

\* DataSection::finalizeContents
DataFinalize(s) ==
    LET l == LayoutChunks(s.Chunks, 1, 0)
    IN  CreateHeader([s EXCEPT !.Chunks = l.chunks, !.BodySize = l.end], l.end)

CustomFinalizeAfterName(s) ==
    LET nd == WriteStr(s.Name)
        l  == LayoutChunks(s.Chunks, 1, Len(nd))
    IN  CreateHeader([s EXCEPT !.Chunks = l.chunks,
                               !.PayloadSize = l.end - Len(nd),
                               !.NameData = nd],
                     l.end)

\* CustomSection::finalizeContents
CustomFinalize(s) ==
    LET l  == LayoutChunks(s.Chunks, 1, 0)
        nd == WriteStr(s.Name)
    IN  CreateHeader([s EXCEPT !.Chunks = l.chunks, !.PayloadSize = l.end,
                               !.NameData = nd],
                     l.end + Len(nd))

FinalizeContents(s, secs) ==
    CASE IsSynthetic(s)    -> SyntheticFinalize(s, secs)
      [] s.kind = "Code"   -> CodeFinalize(s)
      [] s.kind = "Data"   -> DataFinalize(s)
      [] s.kind = "Custom" -> CustomFinalize(s)

Returned(v) == [ok |-> TRUE, val |-> v]
AssertFailed == [ok |-> FALSE, val |-> 0]

SyntheticGetSizeHeaderOnly(s) == Returned(Len(s.Header))

\* SyntheticSection::getSize
SyntheticGetSize(s) == Returned(Len(s.Header) + Len(s.Body))

\* CodeSection::getSize
CodeGetSize(s) ==
    IF s.BodySize = 0 THEN AssertFailed
    ELSE Returned(Len(s.Header) + s.BodySize)

\* DataSection::getSize
DataGetSize(s) == Returned(Len(s.Header) + s.BodySize)

\* CustomSection::getSize
CustomGetSize(s) == Returned(Len(s.Header) + Len(s.NameData) + s.PayloadSize)

GetSizeOf(s) ==
    CASE IsSynthetic(s)    -> SyntheticGetSize(s)
      [] s.kind = "Code"   -> CodeGetSize(s)
      [] s.kind = "Data"   -> DataGetSize(s)
      [] s.kind = "Custom" -> CustomGetSize(s)

\* the buffer is the sequence of its bytes from position 0 up to the last
\* one written; a position never written holds -1
BufAt(buf, pos) == IF pos < Len(buf) THEN buf[pos + 1] ELSE -1

\* memcpy(Buf + at, bytes.data(), bytes.size())
Memcpy(buf, at, bytes) ==
    IF bytes = <<>> THEN buf
    ELSE LET padded == IF Len(buf) >= at THEN buf
                       ELSE buf \o [k \in 1..(at - Len(buf)) |-> -1]
         IN  SubSeq(padded, 1, at) \o bytes
                 \o SubSeq(padded, at + Len(bytes) + 1, Len(padded))

Copy(at, bytes) == [at |-> at, bytes |-> bytes]

\* a writeTo() that ran: the memcpy calls it made, in order
Wrote(copies) == [ok |-> TRUE, copies |-> copies]
\* a writeTo() stopped by its assert
WriteRefused == [ok |-> FALSE, copies |-> <<>>]

RECURSIVE ApplyCopies(_, _)
ApplyCopies(buf, copies) ==
    IF copies = <<>> THEN buf
    ELSE ApplyCopies(Memcpy(buf, Head(copies).at, Head(copies).bytes),
                     Tail(copies))

\* the positions a writeTo() stored into
Touched(copies) ==
    UNION {copies[k].at .. (copies[k].at + Len(copies[k].bytes) - 1) :
              k \in DOMAIN copies}

SyntheticWriteToUnchecked(s) ==
    Wrote(<<Copy(s.Offset, s.Header), Copy(s.Offset + Len(s.Header), s.Body)>>)

SyntheticWriteToBodyAtOffset(s) ==
    IF s.Offset = 0 THEN WriteRefused
    ELSE Wrote(<<Copy(s.Offset, s.Header), Copy(s.Offset, s.Body)>>)

\* SyntheticSection::writeTo
SyntheticWriteTo(s) ==
    IF s.Offset = 0 THEN WriteRefused
    ELSE Wrote(<<Copy(s.Offset, s.Header),
                 Copy(s.Offset + Len(s.Header), s.Body)>>)

\* each chunk writes its bytes at its OutputOffset within the body
WriteChunks(cs, base) ==
    [k \in 1..Len(cs) |-> Copy(base + cs[k].OutputOffset, ChunkBytes(cs[k]))]

\* CodeSection::writeTo and DataSection::writeTo: the header, then the chunks
ContentWriteTo(s) ==
    IF s.Offset = 0 \/ s.Header = <<>> THEN WriteRefused
    ELSE Wrote(<<Copy(s.Offset, s.Header)>>
               \o WriteChunks(s.Chunks, s.Offset + Len(s.Header)))

\* CustomSection::writeTo: the header, the name, then the input sections
CustomWriteTo(s) ==
    IF s.Offset = 0 \/ s.Header = <<>> THEN WriteRefused
    ELSE Wrote(<<Copy(s.Offset, s.Header),
                 Copy(s.Offset + Len(s.Header), s.NameData)>>
               \o WriteChunks(s.Chunks,
                              s.Offset + Len(s.Header) + Len(s.NameData)))

WriteToOf(s) ==
    CASE IsSynthetic(s)            -> SyntheticWriteTo(s)
      [] s.kind \in {"Code", "Data"} -> ContentWriteTo(s)
      [] s.kind = "Custom"         -> CustomWriteTo(s)

----------------------------------------------------------------------------
(* Inputs of a link.                                                       *)

\* input chunks per content section, and stream writes per synthetic one
MaxChunks == 2
MaxAppends == 1

SeqsUpTo(S, n) == UNION {[1..k -> S] : k \in 0..n}

Reloc(o, t, x) == [Offset |-> o, Type |-> t, Index |-> x]

ChunkChoices ==
    { Chunk(0, 1, <<>>),
      Chunk(2, 2, <<Reloc(1, 0, 7)>>),
      Chunk(3, 3, <<Reloc(0, 0, 8), Reloc(2, 1, 9)>>) }

Names == { <<>>, <<110>> }
SyntheticTypes == { WASM_SEC_CUSTOM, 5 }
SectionIndexes == { 1, 200 }
StreamWrites == { <<2, 3>> }

ContentSections ==
    LET lists == SeqsUpTo(ChunkChoices, MaxChunks)
    IN  {CodeSection(l) : l \in lists} \cup {DataSection(l) : l \in lists}
        \cup {CustomSection(n, l) : n \in Names, l \in lists}

SyntheticSections ==
    {SyntheticSection(ty, n) : ty \in SyntheticTypes, n \in Names}

NoHist == [fin |-> 0, napp |-> 0, dirty |-> FALSE, written |-> {}]
NoCall == [op |-> "none", sec |-> 0, ok |-> TRUE, val |-> 0, recs |-> <<>>]
Call(op, i, ok, val) ==
    [op |-> op, sec |-> i, ok |-> ok, val |-> val, recs |-> <<>>]

\* the state after the driver has constructed the sections secs
Constructed(secs) ==
    /\ sections \in {ss \in [DOMAIN secs -> UNION {AfterWrite(secs[i]) : i \in DOMAIN secs}] :
                        \A i \in DOMAIN secs : ss[i] \in AfterWrite(secs[i])}
    /\ Buf = <<>>
    /\ ret = NoCall
    /\ pc = "running"
    /\ hist = [i \in DOMAIN secs |-> NoHist]

PlansFor(secs, writes, n) ==
    {pl \in [DOMAIN secs -> SeqsUpTo(writes, n)] :
        \A i \in DOMAIN secs : ~IsSynthetic(secs[i]) => pl[i] = <<>>}

\* the sections a relocation section is built over in this model: code
\* without and with relocations
RelocTargets ==
    { CodeSection(<<Chunk(0, 1, <<>>)>>),
      CodeSection(<<Chunk(2, 2, <<Reloc(1, 0, 7)>>)>>) }

\* a link: one section alone; a section and the relocation section over
\* it; or two content sections
Singles == {<<s>> : s \in ContentSections \cup SyntheticSections}

RelocPairs ==
    {<<s, RelocSection(n, 1, x)>> :
        s \in RelocTargets, n \in Names, x \in SectionIndexes}
    \cup { <<SyntheticSection(5, <<>>), RelocSection(<<110>>, 1, 200)>> }

ContentPairs ==
    { <<CustomSection(<<110>>, <<Chunk(2, 2, <<Reloc(1, 0, 7)>>)>>),
        DataSection(<<Chunk(3, 3, <<Reloc(0, 0, 8), Reloc(2, 1, 9)>>)>>)>> }

Init ==
    \/ \E secs \in Singles :
          /\ Constructed(secs)
          /\ todo \in PlansFor(secs, StreamWrites, MaxAppends)
    \/ \E secs \in RelocPairs \cup ContentPairs :
          /\ Constructed(secs)
          /\ todo \in PlansFor(secs, StreamWrites, 0)

----------------------------------------------------------------------------
(* A second set of links, with body lengths on both sides of the one-, two- *)
(* and three-byte encodings of the section size.                           *)

BoundarySizes == { 0, 127, 128, 16383, 16384 }

\* stream writes that take an unnamed body to 127, 128, 16383 and 16384
\* bytes, and the same for a body that starts with a two-byte name
UnnamedWrites == << Fill(127, 1), Fill(1, 2), Fill(16255, 3), Fill(1, 4) >>
NamedWrites == << Fill(125, 1), Fill(1, 2), Fill(16255, 3), Fill(1, 4) >>

CodecSingles ==
    {<<CodeSection(<<Chunk(n, 1, <<>>)>>)>> : n \in BoundarySizes}
    \cup {<<DataSection(<<Chunk(n, 1, <<>>)>>)>> : n \in BoundarySizes}
    \cup {<<CustomSection(<<>>, <<Chunk(n - 1, 1, <<>>)>>)>> :
             n \in BoundarySizes \ {0}}
    \cup { <<CodeSection(<<Chunk(127, 1, <<>>), Chunk(1, 2, <<Reloc(0, 0, 7)>>)>>)>>,
           <<CustomSection(<<110>>,
                           <<Chunk(10, 1, <<Reloc(4, 0, 7)>>),
                             Chunk(20, 2, <<Reloc(4, 0, 8)>>)>>)>> }
    \cup {<<SyntheticSection(ty, n)>> : ty \in SyntheticTypes, n \in Names}

CodecPairs ==
    { <<CodeSection(<<Chunk(2, 2, <<Reloc(1, 0, 7)>>)>>),
        RelocSection(<<110>>, 1, 200)>> }

CodecPlan(secs) ==
    [i \in DOMAIN secs |->
        CASE secs[i].kind # "Synthetic" -> <<>>
          [] secs[i].Name = <<>>        -> UnnamedWrites
          [] OTHER                      -> NamedWrites]

InitCodec ==
    \E secs \in CodecSingles \cup CodecPairs :
        /\ Constructed(secs)
        /\ todo = CodecPlan(secs)

----------------------------------------------------------------------------
(* The driver's calls.                                                     *)

Running == pc = "running"

\* getStream() << bytes
StreamWrite(i) ==
    /\ Running
    /\ IsSynthetic(sections[i])
    /\ todo[i] # <<>>
    /\ \E s \in AfterWrite(StreamPut(sections[i], Head(todo[i]))) :
          sections' = [sections EXCEPT ![i] = s]
    /\ todo' = [todo EXCEPT ![i] = Tail(@)]
    /\ hist' = [hist EXCEPT ![i].napp = @ + 1, ![i].dirty = TRUE,
                            ![i].written = {}]
    /\ ret' = NoCall
    /\ UNCHANGED <<Buf, pc>>

\* finalizeContents()
Finalize(i) ==
    /\ Running
    /\ hist[i].fin < MaxFinalize
    /\ UNCHANGED <<Buf, pc, todo>>
    /\ hist' = [hist EXCEPT ![i].fin = @ + 1, ![i].dirty = FALSE,
                            ![i].written = {}]
    /\ ret' = NoCall
    /\ sections' = [sections EXCEPT ![i] = FinalizeContents(@, sections)]

\* the positions the driver may pass: 0, and right after the file header
\* (first section) or right after the previous section as it is now
OffsetChoices(i) ==
    {0} \cup (IF i = 1 THEN {FileHeaderSize}
              ELSE IF GetSizeOf(sections[i - 1]).ok
              THEN {sections[i - 1].Offset + GetSizeOf(sections[i - 1]).val}
              ELSE {})

\* setOffset(NewOffset)
SetOffset(i) ==
    /\ Running
    /\ \E off \in OffsetChoices(i) :
          /\ sections' = [sections EXCEPT ![i] = SetOffsetOf(@, off)]
          /\ ret' = NoCall
    /\ hist' = [hist EXCEPT ![i].written = {}]
    /\ UNCHANGED <<Buf, pc, todo>>

\* getSize()
GetSize(i) ==
    /\ Running
    /\ LET r == GetSizeOf(sections[i])
       IN  /\ ret' = Call("getSize", i, r.ok, r.val)
           /\ pc' = IF r.ok THEN pc ELSE "aborted"
    /\ UNCHANGED <<sections, Buf, todo, hist>>

\* writeTo(Buf)
WriteTo(i) ==
    /\ Running
    /\ UNCHANGED <<sections, todo>>
    /\ LET w == WriteToOf(sections[i])
       IN  /\ Buf' = ApplyCopies(Buf, w.copies)
           /\ ret' = IF w.ok THEN NoCall ELSE Call("writeTo", i, FALSE, 0)
           /\ pc' = IF w.ok THEN pc ELSE "aborted"
           /\ hist' = [hist EXCEPT ![i].written = Touched(w.copies)]

\* numRelocations() and writeRelocations(OS)
EmitRelocations(i) ==
    /\ Running
    /\ ret' = [Call("writeRelocations", i, TRUE, NumRelocations(sections[i]))
                 EXCEPT !.recs = WriteRelocations(sections[i])]
    /\ UNCHANGED <<sections, Buf, pc, todo, hist>>

Next ==
    \/ \E i \in DOMAIN sections : StreamWrite(i)
    \/ \E i \in DOMAIN sections : Finalize(i)
    \/ \E i \in DOMAIN sections : SetOffset(i)
    \/ \E i \in DOMAIN sections : GetSize(i)
    \/ \E i \in DOMAIN sections : WriteTo(i)
    \/ \E i \in DOMAIN sections : EmitRelocations(i)

Spec == Init /\ [][Next]_vars

SpecCodec == InitCodec /\ [][Next]_vars

----------------------------------------------------------------------------
(* Properties.                                                             *)

RECURSIVE SumSizes(_)
SumSizes(cs) == IF cs = <<>> THEN 0 ELSE Head(cs).size + SumSizes(Tail(cs))

\* the length of the body a section stands for: what its stream was given,
\* the chunks' sizes, or the encoded name and the chunks' sizes
BodyLength(s) ==
    CASE IsSynthetic(s)               -> Len(Content(s))
      [] s.kind \in {"Code", "Data"}  -> SumSizes(s.Chunks)
      [] s.kind = "Custom"            -> Len(WriteStr(s.Name)) + SumSizes(s.Chunks)

IsPrefix(p, q) == Len(p) <= Len(q) /\ SubSeq(q, 1, Len(p)) = p

SizeCalled == ret.op = "getSize"

\* finalize has run on section i and nothing was streamed into it since
Finalized(i) == hist[i].fin >= 1 /\ ~hist[i].dirty

\* C1 as claimed: once finalize has run, size() returns, for every kind and
\* every body, the header's length plus the body's length.
C1_SizeReturnsForEveryBody ==
    (SizeCalled /\ Finalized(ret.sec)) =>
        /\ ret.ok
        /\ ret.val = Len(sections[ret.sec].Header) + BodyLength(sections[ret.sec])

\* C1, amended: once finalize has run, size() returns the header's length
\* plus the body's length (Custom: header + encoded name + payload), also
\* for an empty body, except that on a Code section whose cached body size
\* is zero size() fails its assertion.
C1_SizeIsHeaderPlusBody ==
    (SizeCalled /\ Finalized(ret.sec)) =>
        LET s == sections[ret.sec]
        IN  IF s.kind = "Code" /\ s.BodySize = 0
            THEN ~ret.ok /\ pc = "aborted"
            ELSE ret.ok /\ ret.val = Len(s.Header) + BodyLength(s)

C1_Witness ==
    /\ SizeCalled /\ ret.ok
    /\ Finalized(ret.sec)
    /\ sections[ret.sec].kind = "Data"
    /\ BodyLength(sections[ret.sec]) = 0
    /\ ret.val = 2

\* a well-formed unsigned LEB128 number: bytes, all but the last flagged
IsULEB128(bs) ==
    /\ Len(bs) >= 1
    /\ \A k \in 1..Len(bs) :
          bs[k] \in 0..255 /\ (bs[k] >= 128 <=> k < Len(bs))

RECURSIVE DecodeULEB128(_)
DecodeULEB128(bs) ==
    IF Len(bs) <= 1 THEN Head(bs)
    ELSE (Head(bs) - 128) + 128 * DecodeULEB128(Tail(bs))

\* C2: after finalize the header is the type tag and then the unsigned
\* LEB128 encoding of the body's length: decoding it gives back the tag and
\* the length, in one, two or three bytes as the length requires.
C2_HeaderDecodes ==
    \A i \in DOMAIN sections :
        Finalized(i) =>
            LET h == sections[i].Header
                n == BodyLength(sections[i])
            IN  /\ Len(h) >= 2
                /\ h[1] = sections[i].Type
                /\ IsULEB128(Tail(h))
                /\ DecodeULEB128(Tail(h)) = n
                /\ Len(h) = 1 + (IF n < 128 THEN 1 ELSE IF n < 16384 THEN 2 ELSE 3)

C2_Witness ==
    \E i \in DOMAIN sections :
        /\ sections[i].kind = "Synthetic"
        /\ Finalized(i)
        /\ Len(sections[i].Body) = 16384
        /\ sections[i].Header = <<sections[i].Type, 128, 128, 1>>

\* C3: size() before finalize fails an assertion, for every section kind.
C3_SizeBeforeFinalizeAsserts ==
    (SizeCalled /\ hist[ret.sec].fin = 0) => (~ret.ok /\ pc = "aborted")

\* C4: write() at offset 0 fails the assertion and leaves the buffer as it
\* was; the buffer changes only in a write() at a non-zero offset.
C4_WriteNeedsOffset ==
    [][/\ \A i \in DOMAIN sections :
             (WriteTo(i) /\ sections[i].Offset = 0) =>
                 /\ Buf' = Buf
                 /\ pc' = "aborted"
                 /\ ret' = Call("writeTo", i, FALSE, 0)
       /\ (Buf' # Buf) =>
             \E i \in DOMAIN sections : WriteTo(i) /\ sections[i].Offset # 0
      ]_vars

C4_Witness ==
    /\ pc = "aborted"
    /\ ret.op = "writeTo"
    /\ sections[ret.sec].Offset = 0
    /\ hist[ret.sec].fin >= 1
    /\ Buf = <<>>

SectionRange(s) == s.Offset .. (s.Offset + GetSizeOf(s).val - 1)

RECURSIVE SumOfSizes(_, _)
SumOfSizes(secs, k) ==
    IF k = 0 THEN 0 ELSE GetSizeOf(secs[k]).val + SumOfSizes(secs, k - 1)

\* every section is finalized, sized, placed right after its predecessor
\* and written since it last changed
SequentiallyWritten ==
    \A i \in DOMAIN sections :
        /\ hist[i].fin >= 1
        /\ GetSizeOf(sections[i]).ok
        /\ sections[i].Offset # 0
        /\ hist[i].written # {}
        /\ i > 1 => sections[i].Offset =
                      sections[i - 1].Offset + GetSizeOf(sections[i - 1]).val

C5_Ranges ==
    SequentiallyWritten =>
        LET n == Len(sections)
        IN  /\ \A i \in 1..n : hist[i].written = SectionRange(sections[i])
            /\ \A i, j \in 1..n :
                  i # j => hist[i].written \cap hist[j].written = {}
            /\ UNION {hist[i].written : i \in 1..n} =
                  sections[1].Offset ..
                      (sections[1].Offset + SumOfSizes(sections, n) - 1)
            /\ Cardinality(UNION {hist[i].written : i \in 1..n}) =
                  SumOfSizes(sections, n)
            /\ \A p \in UNION {hist[i].written : i \in 1..n} :
                  BufAt(Buf, p) # -1

C5_WriteStaysInRange ==
    \A i \in DOMAIN sections :
        (WriteTo(i) /\ hist[i].fin >= 1 /\ GetSizeOf(sections[i]).ok) =>
            \A p \in 0..(Len(Buf') - 1) :
                BufAt(Buf', p) # BufAt(Buf, p) =>
                    p \in SectionRange(sections[i])

\* C5: finalized sections placed one after the other and written fill the
\* ranges [offset, offset + size()), which are contiguous and disjoint and
\* hold as many bytes as the sizes add up to; a write changes no byte
\* outside its section's range.
C5_SequentialWritesTile == []C5_Ranges /\ [][C5_WriteStaysInRange]_vars

C5_Witness ==
    /\ Len(sections) = 2
    /\ SequentiallyWritten
    /\ sections[2].kind = "Reloc"

\* C6: the body size a Code section caches in finalize is the sum of its
\* functions' sizes.
C6_CodeBodyIsSumOfFunctions ==
    \A i \in DOMAIN sections :
        (sections[i].kind = "Code" /\ hist[i].fin >= 1) =>
            sections[i].BodySize = SumSizes(sections[i].Chunks)

C6_Witness ==
    \E i \in DOMAIN sections :
        /\ sections[i].kind = "Code" /\ hist[i].fin >= 1
        /\ Len(sections[i].Chunks) = 2
        /\ sections[i].BodySize = 5

\* the records of chunk k, moved by the sizes of the chunks before it
ShiftedRelocs(cs, k) ==
    [r \in 1..Len(cs[k].relocs) |->
        [cs[k].relocs[r] EXCEPT
            !.Offset = cs[k].relocs[r].Offset + SumSizes(SubSeq(cs, 1, k - 1))]]

RECURSIVE ExpectedRelocs(_, _)
ExpectedRelocs(cs, k) ==
    IF k = 0 THEN <<>> ELSE ExpectedRelocs(cs, k - 1) \o ShiftedRelocs(cs, k)

FinalizedOverNoRelocs(i) ==
    /\ sections[i].kind = "Reloc"
    /\ hist[i].fin = 1 /\ hist[i].napp = 0
    /\ NumRelocations(sections[sections[i].Sec]) = 0

\* C8 as claimed: the body is the encoded target index and a zero count,
\* and no other byte.
C8_BodyIsIndexAndZero ==
    \A i \in DOMAIN sections :
        FinalizedOverNoRelocs(i) =>
            sections[i].Body = EncodeULEB128(sections[i].SectionIndex) \o <<0>>

\* C8, amended: the body is the length-prefixed section name, when the name
\* is not empty, then the encoded target index and a zero count, and no
\* other byte.
C8_BodyIsNameIndexAndZero ==
    \A i \in DOMAIN sections :
        FinalizedOverNoRelocs(i) =>
            sections[i].Body =
                (IF sections[i].Name = <<>> THEN <<>>
                 ELSE WriteStr(sections[i].Name))
                \o EncodeULEB128(sections[i].SectionIndex) \o <<0>>

C8_Witness ==
    \E i \in DOMAIN sections :
        /\ FinalizedOverNoRelocs(i)
        /\ sections[i].Name = <<110>>
        /\ sections[i].SectionIndex = 200
        /\ sections[i].Body = <<1, 110, 200, 1, 0>>

====
